---- MODULE Spec2Model ----
(***************************************************************************)
(* A model of jtd-fuzz (src/src/lib.rs): fuzz generates one JSON value     *)
(* from a JSON Type Definition schema and a random source.                 *)
(*                                                                         *)
(* Strings are sequences of character codes, so that ordering, case        *)
(* folding and printability are computed, not assumed.  JSON values are    *)
(* records tagged by the field t.  The random source is a seeded stream    *)
(* of raw words; every draw of the code consumes one word and maps it      *)
(* into the requested range.                                               *)
(***************************************************************************)
EXTENDS Integers, Sequences, FiniteSets, TLC

\* a variant of MAX_SEQ_LENGTH one longer
MAX_SEQ_LENGTH_plus_one == 8 + 1

\* src/src/lib.rs:39
MAX_SEQ_LENGTH == 8

\* src/src/lib.rs:44
METADATA_KEY_FUZZ_HINT == "fuzzHint"

\* The longest period of a seeded stream of raw words.
MaxPeriod == 3

\* The deepest nesting of fuzz_with_root calls the stack holds; a call
\* nested deeper overflows the stack, which ends the process.
MaxDepth == 8

\* The raw words a stream is made of: 32-bit words, read as i32 (-1 is the
\* word of all ones).  Their residues cover both coins, the lengths 0, 1,
\* 6 and 8, every outcome of an Empty node, and the characters ' ', '!',
\* '&', 'A' and DEL.
RawWords == {0, 1, -1, 33, 6}

(***************************************************************************)
(* Strings                                                                 *)
(***************************************************************************)

\* u8 as char, then char::to_lowercase restricted to the codes 0..127
ToLowerChar(c) == IF c >= 65 /\ c <= 90 THEN c + 32 ELSE c

\* String::to_lowercase
to_lowercase(s) == [i \in 1..Len(s) |-> ToLowerChar(s[i])]

\* Ord for String: bytewise lexicographic
RECURSIVE StrLess(_, _)
StrLess(a, b) ==
    IF a = <<>> THEN b # <<>>
    ELSE IF b = <<>> THEN FALSE
    ELSE IF Head(a) # Head(b) THEN Head(a) < Head(b)
    ELSE StrLess(Tail(a), Tail(b))

RECURSIVE SortedInsert(_, _)
SortedInsert(k, s) ==
    IF s = <<>> THEN <<k>>
    ELSE IF k = Head(s) \/ StrLess(k, Head(s)) THEN <<k>> \o s
    ELSE <<Head(s)>> \o SortedInsert(k, Tail(s))

\* Vec::sort on a vector of strings
RECURSIVE sort(_)
sort(v) == IF v = <<>> THEN <<>> ELSE SortedInsert(Head(v), sort(Tail(v)))

RECURSIVE SetToSeq(_)
SetToSeq(S) ==
    IF S = {} THEN <<>>
    ELSE LET x == CHOOSE y \in S : TRUE IN <<x>> \o SetToSeq(S \ {x})

Reverse(s) == [i \in 1..Len(s) |-> s[Len(s) + 1 - i]]

\* Iteration of a BTreeSet / BTreeMap of jtd: ascending key order.
BTreeIter(S) == sort(SetToSeq(S))

\* map.keys().cloned().collect(): the keys in the order the schema
\* representation holds them (order 0: ascending, order 1: descending).
KeysInOrder(S, order) == IF order = 0 THEN BTreeIter(S) ELSE Reverse(BTreeIter(S))

(***************************************************************************)
(* The random source                                                       *)
(***************************************************************************)

Seeds == UNION {[1..n -> RawWords] : n \in 1..MaxPeriod}

SeedFrom(seed) == [seed |-> seed, pos |-> 0]

Raw(rng) == rng.seed[rng.pos + 1]

Advance(rng) == [rng EXCEPT !.pos = (rng.pos + 1) % Len(rng.seed)]

\* rng.gen::<bool>()
GenBool(w) == w % 2 = 1

\* rng.gen_range(lo..=hi)
GenRange(w, lo, hi) == lo + (w % (hi - lo + 1))

\* rng.gen::<i32>(): the word itself
GenI32(w) == w

\* a variant of GenI8 that draws a u8 where an i8 is meant
GenI8_unsigned(w) == GenRange(w, 0, 255)

\* rng.gen::<i8>(), <u8>(), <i16>(), <u16>()
GenI8(w) == GenRange(w, -128, 127)
GenU8(w) == GenRange(w, 0, 255)
GenI16(w) == GenRange(w, -32768, 32767)
GenU16(w) == GenRange(w, 0, 65535)

(***************************************************************************)
(* JSON values                                                             *)
(***************************************************************************)

Null == [t |-> "null"]
JBool(b) == [t |-> "bool", b |-> b]
\* an integer top * 2^31 + n (top is 1 only for a u32 of 2^31 or more)
JInt(n) == [t |-> "int", top |-> 0, n |-> n]
\* rng.gen::<u32>().into(): the word read as unsigned
JUint32(w) ==
    [t |-> "int", top |-> IF w < 0 THEN 1 ELSE 0,
     n |-> IF w < 0 THEN w + 2147483647 + 1 ELSE w]
\* a float of [0, 1), named by the raw word it was drawn from
JFloat(w) == [t |-> "float", w |-> w]
JStr(s) == [t |-> "str", kind |-> "ascii", s |-> s]
JTimestamp(offset, secs) == [t |-> "str", kind |-> "rfc3339", offset |-> offset, secs |-> secs]
JFaker(hint, w) == [t |-> "str", kind |-> "faker", hint |-> hint, w |-> w]
JArr(a) == [t |-> "arr", a |-> a]
JObj(o) == [t |-> "obj", o |-> o]

EmptyMap == [k \in {} |-> Null]

\* BTreeMap::insert / serde_json::Map::insert: the last value wins
MapInsert(m, k, v) == [x \in DOMAIN m \cup {k} |-> IF x = k THEN v ELSE m[x]]

(***************************************************************************)
(* Generation state threaded through one call: the random source, the      *)
(* record of what each generator did, and the panic (if any) that ended    *)
(* the call.                                                               *)
(***************************************************************************)

NewCall(rng) ==
    [rng |-> rng, log |-> <<>>, abort |-> "none", depth |-> 0, draws |-> 0]

\* one word consumed from the random source; draws counts them
Step(st) == [st EXCEPT !.rng = Advance(st.rng), !.draws = @ + 1]

Word(st) == Raw(st.rng)

Log(st, e) == IF st.abort = "none" THEN [st EXCEPT !.log = Append(st.log, e)] ELSE st

\* unwrap() on None, indexing a missing key, unreachable!()
Panic(st, why) == [val |-> Null, st |-> [st EXCEPT !.abort = why]]

\* a variant of NullCoin that draws the coin for every node
NullCoin_always(st, nullable) ==
    [null |-> nullable /\ GenBool(Word(st)), st |-> Step(st)]

\* `*nullable && rng.gen()`: the coin is drawn only for a nullable node
NullCoin(st, nullable) ==
    IF nullable THEN [null |-> GenBool(Word(st)), st |-> Step(st)]
    ELSE [null |-> FALSE, st |-> st]

(***************************************************************************)
(* fuzz_string                                                             *)
(***************************************************************************)

\* rng.gen_range(32u8..=127u8) as char
FuzzChar(w) == GenRange(w, 32, 127)

RECURSIVE FuzzChars(_, _)
FuzzChars(st, n) ==
    IF n = 0 THEN [s |-> <<>>, st |-> st]
    ELSE LET c == FuzzChar(Word(st))
             rest == FuzzChars(Step(st), n - 1)
         IN [s |-> <<c>> \o rest.s, st |-> rest.st]

fuzz_string(st) ==
    LET n == GenRange(Word(st), 0, MAX_SEQ_LENGTH)
        r == FuzzChars(Step(st), n)
    IN [s |-> r.s, st |-> Log(r.st, [ev |-> "string", s |-> r.s])]

(***************************************************************************)
(* Schemas.  A node is a record with a field form; the schema passed to    *)
(* fuzz also has the fields definitions and order (the order in which      *)
(* its representation holds the keys of its maps).                         *)
(***************************************************************************)

NoMetadata == [k \in {} |-> Null]

\* Schema::Empty { metadata: Default::default(), definitions: Default::default() }
SynthEmpty == [form |-> "Empty", metadata |-> NoMetadata,
               definitions |-> EmptyMap, order |-> 0]

\* the Schema::Elements built for outcome 5 of an Empty node
SynthElements == [form |-> "Elements", metadata |-> NoMetadata, nullable |-> FALSE,
                  elements |-> [form |-> "Empty", metadata |-> NoMetadata],
                  definitions |-> EmptyMap, order |-> 0]

\* the Schema::Values built for outcome 6 of an Empty node
SynthValues == [form |-> "Values", metadata |-> NoMetadata, nullable |-> FALSE,
                values |-> [form |-> "Empty", metadata |-> NoMetadata],
                definitions |-> EmptyMap, order |-> 0]

\* the fuzzHint values the match of Type::String has an arm for
RecognizedHints == {
    "en_us/addresses/address", "en_us/addresses/city_name",
    "en_us/addresses/division", "en_us/addresses/division_abbreviation",
    "en_us/addresses/postal_code", "en_us/addresses/secondary_address",
    "en_us/addresses/street_address", "en_us/addresses/street_name",
    "en_us/company/company_name", "en_us/company/slogan",
    "en_us/internet/domain", "en_us/internet/email", "en_us/internet/username",
    "en_us/names/first_name", "en_us/names/full_name", "en_us/names/last_name",
    "en_us/names/name_prefix", "en_us/names/name_suffix",
    "en_us/phones/phone_number",
    "fr_fr/addresses/address", "fr_fr/addresses/city_name",
    "fr_fr/addresses/division", "fr_fr/addresses/postal_code",
    "fr_fr/addresses/secondary_address", "fr_fr/addresses/street_address",
    "fr_fr/addresses/street_name", "fr_fr/company/company_name",
    "fr_fr/internet/domain", "fr_fr/internet/email", "fr_fr/internet/username",
    "fr_fr/names/first_name", "fr_fr/names/full_name", "fr_fr/names/last_name",
    "fr_fr/names/name_prefix", "fr_fr/phones/phone_number",
    "lorem/word", "lorem/sentence", "lorem/paragraph", "lorem/paragraphs" }

\* metadata.get(METADATA_KEY_FUZZ_HINT).and_then(Value::as_str):
\* <<>> is None, <<h>> is Some(h)
FuzzHintOf(metadata) ==
    IF METADATA_KEY_FUZZ_HINT \in DOMAIN metadata
       /\ metadata[METADATA_KEY_FUZZ_HINT].t = "str"
    THEN <<metadata[METADATA_KEY_FUZZ_HINT].s>>
    ELSE <<>>

\* the match on the hint: a faker_rand generator for a recognized hint
\* (one word of the random source stands for what it consumes),
\* fuzz_string otherwise
FuzzTypeString(st, metadata) ==
    LET hint == FuzzHintOf(metadata)
    IN IF hint # <<>> /\ hint[1] \in RecognizedHints
       THEN [val |-> JFaker(hint[1], Word(st)), st |-> Step(st)]
       ELSE LET r == fuzz_string(st) IN [val |-> JStr(r.s), st |-> r.st]

\* a variant of max_offset with the 18 hours java.time.ZoneOffset allows
max_offset_18_hours == 18 * 60 * 60

\* let max_offset = 14 * 60 * 60;
max_offset == 14 * 60 * 60

\* Type::Timestamp: the offset is drawn first, then the epoch seconds
FuzzTimestamp(st) ==
    LET offset == GenRange(Word(st), -max_offset, max_offset)
        s1 == Step(st)
        secs == GenI32(Word(s1))
    IN [val |-> JTimestamp(offset, secs), st |-> Step(s1)]

\* the match on type_ of Schema::Type
FuzzTypeValue(st, type_, metadata) ==
    LET w == Word(st)
        one(v) == [val |-> v, st |-> Step(st)]
    IN CASE type_ = "boolean" -> one(JBool(GenBool(w)))
         [] type_ = "float32" -> one(JFloat(w))
         [] type_ = "float64" -> one(JFloat(w))
         [] type_ = "int8"    -> one(JInt(GenI8(w)))
         [] type_ = "uint8"   -> one(JInt(GenU8(w)))
         [] type_ = "int16"   -> one(JInt(GenI16(w)))
         [] type_ = "uint16"  -> one(JInt(GenU16(w)))
         [] type_ = "int32"   -> one(JInt(GenI32(w)))
         [] type_ = "uint32"  -> one(JUint32(w))
         [] type_ = "string"  -> FuzzTypeString(st, metadata)
         [] type_ = "timestamp" -> FuzzTimestamp(st)

(***************************************************************************)
(* fuzz_with_root.  rootIsSchema is the outcome of the pointer comparison  *)
(* `root as *const _ == schema as *const _`: it holds in the call fuzz     *)
(* makes, and in no recursive call (a child or a definition is another     *)
(* allocation than the root).                                              *)
(***************************************************************************)

RECURSIVE fuzz_with_root(_, _, _, _)
RECURSIVE fuzz(_, _)

\* a variant of RangeMaxValue with the outcomes of the root test exchanged
RangeMaxValue_exchanged(rootIsSchema) == IF rootIsSchema THEN 5 ELSE 7

\* a variant of RangeMaxValue without the root test
RangeMaxValue_always7(rootIsSchema) == 7

\* range_max_value of Schema::Empty
RangeMaxValue(rootIsSchema) == IF rootIsSchema THEN 7 ELSE 5

FuzzEmpty(root, st, schema, rootIsSchema) ==
    LET val == GenRange(Word(st), 0, RangeMaxValue(rootIsSchema) - 1)
        s1 == Step(st)
        str == fuzz_string(s1)
        r == CASE val = 0 -> [val |-> Null, st |-> s1]
               [] val = 1 -> [val |-> JBool(GenBool(Word(s1))), st |-> Step(s1)]
               [] val = 2 -> [val |-> JInt(GenU8(Word(s1))), st |-> Step(s1)]
               [] val = 3 -> [val |-> JFloat(Word(s1)), st |-> Step(s1)]
               [] val = 4 -> [val |-> JStr(str.s), st |-> str.st]
               [] val = 5 -> fuzz(SynthElements, s1)
               [] val = 6 -> fuzz(SynthValues, s1)
               [] OTHER -> Panic(s1, "unreachable")
    IN [val |-> r.val,
        st |-> Log(r.st, [ev |-> "empty", rootIsSchema |-> rootIsSchema,
                          choice |-> val, val |-> r.val])]

\* a variant of RefRoot that makes the definition found the new root
RefRoot_definition(root, definition) ==
    [f \in DOMAIN definition \cup {"definitions", "order"} |->
        CASE f = "definitions" -> EmptyMap
          [] f = "order" -> root.order
          [] OTHER -> definition[f]]

\* the root passed on by fuzz_with_root(root, rng, &root.definitions()[ref_])
RefRoot(root, definition) == root

\* &root.definitions()[ref_]: indexing a missing key panics
FuzzRef(root, st, schema) ==
    LET c == NullCoin(st, schema.nullable)
        resolved == [ev |-> "ref", ref |-> schema.ref, root |-> root,
                     depth |-> st.depth]
    IN IF c.null THEN [val |-> Null, st |-> c.st]
       ELSE IF schema.ref \notin DOMAIN root.definitions
       THEN Panic(Log(c.st, resolved), "definitions")
       ELSE fuzz_with_root(RefRoot(root, root.definitions[schema.ref]),
                           Log(c.st, resolved),
                           root.definitions[schema.ref], FALSE)

FuzzType(root, st, schema) ==
    LET c == NullCoin(st, schema.nullable)
    IN IF c.null THEN [val |-> Null, st |-> c.st]
       ELSE FuzzTypeValue(c.st, schema.type, schema.metadata)

\* a variant of Choose whose index may be one past the last element
Choose_inclusive(items, w) ==
    LET i == GenRange(w, 0, Len(items)) + 1
    IN IF items = <<>> \/ i > Len(items) THEN <<>> ELSE <<items[i]>>

\* IteratorRandom::choose on an iterator of known length: None (and no
\* draw) when it is empty, else the element at one index drawn in 0..len
Choose(items, w) ==
    IF items = <<>> THEN <<>> ELSE <<items[GenRange(w, 0, Len(items) - 1) + 1]>>

\* enum_.iter(): a BTreeSet in ascending order
EnumIter(enum_, order) == BTreeIter(enum_)

FuzzEnum(root, st, schema) ==
    LET c == NullCoin(st, schema.nullable)
        chosen == Choose(EnumIter(schema.enum, root.order), Word(c.st))
    IN IF c.null THEN [val |-> Null, st |-> c.st]
       ELSE IF chosen = <<>> THEN Panic(c.st, "enum")
       ELSE [val |-> JStr(chosen[1]), st |-> Step(c.st)]

RECURSIVE ElementsLoop(_, _, _, _, _)
ElementsLoop(root, st, sub, n, acc) ==
    IF n = 0 \/ st.abort # "none" THEN [val |-> acc, st |-> st]
    ELSE LET r == fuzz_with_root(root, st, sub, FALSE)
         IN ElementsLoop(root, r.st, sub, n - 1, Append(acc, r.val))

FuzzElements(root, st, schema) ==
    LET c == NullCoin(st, schema.nullable)
        n == GenRange(Word(c.st), 0, MAX_SEQ_LENGTH)
        r == ElementsLoop(root, Step(c.st), schema.elements, n, <<>>)
    IN IF c.null THEN [val |-> Null, st |-> c.st]
       ELSE [val |-> JArr(r.val),
             st |-> Log(r.st, [ev |-> "elements", len |-> Len(r.val)])]

RECURSIVE ValuesLoop(_, _, _, _, _)
ValuesLoop(root, st, sub, n, acc) ==
    IF n = 0 \/ st.abort # "none" THEN [val |-> acc, st |-> st]
    ELSE LET k == fuzz_string(st)
             r == fuzz_with_root(root, k.st, sub, FALSE)
         IN ValuesLoop(root, r.st, sub, n - 1, MapInsert(acc, k.s, r.val))

FuzzValues(root, st, schema) ==
    LET c == NullCoin(st, schema.nullable)
        n == GenRange(Word(c.st), 0, MAX_SEQ_LENGTH)
        r == ValuesLoop(root, Step(c.st), schema.values, n, EmptyMap)
    IN IF c.null THEN [val |-> Null, st |-> c.st]
       ELSE [val |-> JObj(r.val),
             st |-> Log(r.st, [ev |-> "values", drawn |-> n,
                               members |-> Cardinality(DOMAIN r.val)])]

\* a variant of required_keys without the sort
required_keys_unsorted(properties, order) == KeysInOrder(DOMAIN properties, order)

\* properties.keys().cloned().collect(), then required_keys.sort()
required_keys(properties, order) == sort(KeysInOrder(DOMAIN properties, order))

\* a variant of optional_keys without the sort
optional_keys_unsorted(optional_properties, order) ==
    KeysInOrder(DOMAIN optional_properties, order)

\* optional_properties.keys().cloned().collect(), then optional_keys.sort()
optional_keys(optional_properties, order) ==
    sort(KeysInOrder(DOMAIN optional_properties, order))

\* the record of one step of a Properties node: the member (or the count
\* of additional properties) it was for, and the draws from..to-1 it took
Member(st, group, key, coin, val, after) ==
    Log(after, [ev |-> "member", group |-> group, key |-> key, coin |-> coin,
                val |-> val, depth |-> st.depth,
                from |-> st.draws, to |-> after.draws])

RECURSIVE RequiredLoop(_, _, _, _, _)
RequiredLoop(root, st, properties, keys, members) ==
    IF keys = <<>> \/ st.abort # "none" THEN [val |-> members, st |-> st]
    ELSE LET k == Head(keys)
             r == fuzz_with_root(root, st, properties[k], FALSE)
         IN RequiredLoop(root, Member(st, "required", k, FALSE, r.val, r.st),
                         properties, Tail(keys), MapInsert(members, k, r.val))

\* a variant of OptionalSkipped that leaves the member out on a false coin
OptionalSkipped_onFalse(w) == ~GenBool(w)

\* `if rng.gen() { continue; }`: the member is left out when the coin is true
OptionalSkipped(w) == GenBool(w)

\* acc: the members so far, and the optional keys the coin left out
RECURSIVE OptionalLoop(_, _, _, _, _)
OptionalLoop(root, st, optional_properties, keys, acc) ==
    IF keys = <<>> \/ st.abort # "none" THEN [val |-> acc, st |-> st]
    ELSE LET k == Head(keys)
             s1 == Step(st)
             r == fuzz_with_root(root, s1, optional_properties[k], FALSE)
         IN IF OptionalSkipped(Word(st))
            THEN OptionalLoop(root, Member(st, "optional", k, GenBool(Word(st)), Null, s1),
                              optional_properties, Tail(keys),
                              [acc EXCEPT !.skipped = @ \cup {k}])
            ELSE OptionalLoop(root, Member(st, "optional", k, GenBool(Word(st)),
                                           r.val, r.st),
                              optional_properties, Tail(keys),
                              [acc EXCEPT !.members = MapInsert(@, k, r.val)])

\* a variant of defined_properties_lowercase without the optional names
defined_properties_lowercase_required(properties, optional_properties) ==
    {to_lowercase(k) : k \in DOMAIN properties}

\* the lower-cased names of the required and optional members
defined_properties_lowercase(properties, optional_properties) ==
    {to_lowercase(k) : k \in DOMAIN properties \cup DOMAIN optional_properties}

\* a variant of ExtraKeyAllowed that looks the key up as drawn
ExtraKeyAllowed_exact(lowercase, key) == key \notin lowercase

\* !defined_properties_lowercase.contains(&key.to_lowercase())
ExtraKeyAllowed(lowercase, key) == to_lowercase(key) \notin lowercase

\* acc: the members so far, and each key drawn with whether it was inserted
RECURSIVE AdditionalLoop(_, _, _, _)
AdditionalLoop(st, lowercase, n, acc) ==
    IF n = 0 \/ st.abort # "none" THEN [val |-> acc, st |-> st]
    ELSE LET key == fuzz_string(st)
             v == fuzz(SynthEmpty, key.st)
         IN IF ExtraKeyAllowed(lowercase, key.s)
            THEN AdditionalLoop(Member(st, "additional", key.s, FALSE, v.val, v.st),
                                lowercase, n - 1,
                     [members |-> MapInsert(acc.members, key.s, v.val),
                      extras |-> Append(acc.extras,
                                        [key |-> key.s, inserted |-> TRUE, val |-> v.val])])
            ELSE AdditionalLoop(Member(st, "additional", key.s, FALSE, Null, key.st),
                                lowercase, n - 1,
                     [members |-> acc.members,
                      extras |-> Append(acc.extras,
                                        [key |-> key.s, inserted |-> FALSE, val |-> Null])])

FuzzProperties(root, st, schema) ==
    LET c == NullCoin(st, schema.nullable)
        req == RequiredLoop(root, c.st, schema.properties,
                            required_keys(schema.properties, root.order), EmptyMap)
        opt == OptionalLoop(root, req.st, schema.optional_properties,
                            optional_keys(schema.optional_properties, root.order),
                            [members |-> req.val, skipped |-> {}])
        n == GenRange(Word(opt.st), 0, MAX_SEQ_LENGTH)
        add == IF schema.additional_properties /\ opt.st.abort = "none"
               THEN AdditionalLoop(Member(opt.st, "count", <<>>, FALSE, JInt(n),
                                          Step(opt.st)),
                        defined_properties_lowercase(schema.properties,
                                                     schema.optional_properties),
                        n, [members |-> opt.val.members, extras |-> <<>>])
               ELSE [val |-> [members |-> opt.val.members, extras |-> <<>>],
                     st |-> opt.st]
    IN IF c.null THEN [val |-> Null, st |-> c.st]
       ELSE [val |-> JObj(add.val.members),
             st |-> Log(add.st, [ev |-> "props", schema |-> schema,
                                 depth |-> st.depth,
                                 from |-> c.st.draws, to |-> add.st.draws,
                                 skipped |-> opt.val.skipped,
                                 extras |-> add.val.extras,
                                 obj |-> add.val.members])]

\* a variant of InsertTag that keeps a member already there
InsertTag_keep(o, discriminator, tag) ==
    IF discriminator \in DOMAIN o THEN o ELSE MapInsert(o, discriminator, JStr(tag))

\* obj.as_object_mut().unwrap().insert(discriminator, discriminator_value)
InsertTag(o, discriminator, tag) == MapInsert(o, discriminator, JStr(tag))

\* the sub_schema of the (discriminator_value, sub_schema) pair chosen
ChosenSubSchema(mapping, tag) == mapping[tag]

FuzzDiscriminator(root, st, schema) ==
    LET c == NullCoin(st, schema.nullable)
        chosen == Choose(BTreeIter(DOMAIN schema.mapping), Word(c.st))
        tag == chosen[1]
        r == fuzz_with_root(root, Step(c.st),
                            ChosenSubSchema(schema.mapping, tag), FALSE)
        obj == InsertTag(r.val.o, schema.discriminator, tag)
    IN IF c.null THEN [val |-> Null, st |-> c.st]
       ELSE IF chosen = <<>> THEN Panic(c.st, "mapping")
       ELSE IF r.st.abort # "none" THEN r
       ELSE IF r.val.t # "obj" THEN Panic(r.st, "as_object_mut")
       ELSE [val |-> JObj(obj),
             st |-> Log(r.st, [ev |-> "disc", schema |-> schema, tag |-> tag,
                               sub |-> r.val.o, obj |-> obj])]

\* match schema { ... }
MatchForm(root, st, schema, rootIsSchema) ==
    CASE schema.form = "Empty" -> FuzzEmpty(root, st, schema, rootIsSchema)
      [] schema.form = "Ref" -> FuzzRef(root, st, schema)
      [] schema.form = "Type" -> FuzzType(root, st, schema)
      [] schema.form = "Enum" -> FuzzEnum(root, st, schema)
      [] schema.form = "Elements" -> FuzzElements(root, st, schema)
      [] schema.form = "Properties" -> FuzzProperties(root, st, schema)
      [] schema.form = "Values" -> FuzzValues(root, st, schema)
      [] schema.form = "Discriminator" -> FuzzDiscriminator(root, st, schema)

\* A call made after a panic never happens; a call nested deeper than the
\* stack holds ends the process; any other call runs the match and
\* returns to its caller's depth.
fuzz_with_root(root, st, schema, rootIsSchema) ==
    IF st.abort # "none" THEN [val |-> Null, st |-> st]
    ELSE IF st.depth >= MaxDepth THEN Panic(st, "stack")
    ELSE LET r == MatchForm(root, [st EXCEPT !.depth = st.depth + 1],
                            schema, rootIsSchema)
         IN [val |-> r.val, st |-> [r.st EXCEPT !.depth = st.depth]]

\* pub fn fuzz(schema, rng): the schema is its own root
fuzz(schema, st) == fuzz_with_root(schema, st, schema, TRUE)

(***************************************************************************)
(* The schemas fuzz is called with.  Member names, tags and enum values    *)
(* are strings of the characters the raw words can produce ('!', '&',      *)
(* 'A') and of others ('a', 'b', 'c', ...).                                *)
(***************************************************************************)

EmptyS == [form |-> "Empty", metadata |-> NoMetadata]
RefS(name, nullable) ==
    [form |-> "Ref", metadata |-> NoMetadata, ref |-> name, nullable |-> nullable]
TypeM(type_, nullable, metadata) ==
    [form |-> "Type", metadata |-> metadata, type |-> type_, nullable |-> nullable]
TypeS(type_, nullable) == TypeM(type_, nullable, NoMetadata)
EnumS(values, nullable) ==
    [form |-> "Enum", metadata |-> NoMetadata, enum |-> values, nullable |-> nullable]
ElementsS(sub, nullable) ==
    [form |-> "Elements", metadata |-> NoMetadata, elements |-> sub,
     nullable |-> nullable]
PropertiesS(required, optional, additional, nullable) ==
    [form |-> "Properties", metadata |-> NoMetadata, properties |-> required,
     optional_properties |-> optional, additional_properties |-> additional,
     nullable |-> nullable]
ValuesS(sub, nullable) ==
    [form |-> "Values", metadata |-> NoMetadata, values |-> sub, nullable |-> nullable]
DiscriminatorS(discriminator, mapping, nullable) ==
    [form |-> "Discriminator", metadata |-> NoMetadata,
     discriminator |-> discriminator, mapping |-> mapping, nullable |-> nullable]

Hint(h) == (METADATA_KEY_FUZZ_HINT :> [t |-> "str", s |-> h])

\* a schema as passed to fuzz: the node, its definitions, its key order
WithField(rec, field, value) ==
    [f \in DOMAIN rec \cup {field} |-> IF f = field THEN value ELSE rec[f]]
RootOf(node, definitions) == WithField(node, "definitions", definitions)

Schemas == <<
    \* 1: tests::test_fuzz_empty
    RootOf(EmptyS, EmptyMap),
    \* 2: tests::test_fuzz_ref, with a nullable ref to a ref
    RootOf(PropertiesS((<<97>> :> RefS(<<97>>, FALSE)) @@ (<<99>> :> RefS(<<99>>, TRUE)),
                       EmptyMap, FALSE, FALSE),
           (<<97>> :> TypeS("timestamp", FALSE))
           @@ (<<98>> :> TypeS("timestamp", TRUE))
           @@ (<<99>> :> RefS(<<98>>, FALSE))),
    \* 3, 4: tests::test_fuzz_type
    RootOf(TypeS("uint8", FALSE), EmptyMap),
    RootOf(TypeS("boolean", TRUE), EmptyMap),
    \* 5: every numeric type
    RootOf(PropertiesS((<<97>> :> TypeS("int8", FALSE)) @@ (<<98>> :> TypeS("int16", FALSE))
                       @@ (<<99>> :> TypeS("uint16", FALSE))
                       @@ (<<100>> :> TypeS("int32", FALSE))
                       @@ (<<101>> :> TypeS("uint32", FALSE))
                       @@ (<<102>> :> TypeS("float32", FALSE))
                       @@ (<<103>> :> TypeS("float64", TRUE)),
                       EmptyMap, FALSE, FALSE), EmptyMap),
    \* 6 - 11: strings and fuzzHint
    RootOf(TypeS("string", FALSE), EmptyMap),
    RootOf(TypeM("string", TRUE, Hint("lorem/word")), EmptyMap),
    RootOf(TypeM("string", FALSE, Hint("en_us/addresses/address")), EmptyMap),
    RootOf(TypeM("string", FALSE, Hint("en_us/addresses/zip")), EmptyMap),
    RootOf(TypeM("string", FALSE, (METADATA_KEY_FUZZ_HINT :> [t |-> "int", n |-> 5])),
           EmptyMap),
    RootOf(ElementsS(TypeM("uint8", FALSE, Hint("lorem/word")), FALSE), EmptyMap),
    \* 12: timestamp
    RootOf(TypeS("timestamp", FALSE), EmptyMap),
    \* 13: tests::test_fuzz_enum
    RootOf(EnumS({<<97>>, <<98>>, <<99>>}, TRUE), EmptyMap),
    \* 14, 15: tests::test_fuzz_elements, and elements of any value
    RootOf(ElementsS(TypeS("uint8", FALSE), TRUE), EmptyMap),
    RootOf(ElementsS(WithField(EmptyS, "metadata", Hint("lorem/word")), FALSE), EmptyMap),
    \* 16: tests::test_fuzz_properties
    RootOf(PropertiesS((<<97>> :> TypeS("uint8", FALSE)) @@ (<<98>> :> TypeS("string", FALSE)),
                       (<<99>> :> TypeS("uint32", FALSE))
                       @@ (<<100>> :> TypeS("timestamp", FALSE)),
                       TRUE, TRUE), EmptyMap),
    \* 17: member names in mixed case: "a" required, "!" and "A&" optional
    RootOf(PropertiesS((<<97>> :> TypeS("boolean", FALSE)),
                       (<<33>> :> TypeS("uint8", FALSE)) @@ (<<65, 38>> :> EmptyS),
                       TRUE, FALSE), EmptyMap),
    \* 18, 19: tests::test_fuzz_values, and values of any value
    RootOf(ValuesS(TypeS("uint8", FALSE), TRUE), EmptyMap),
    RootOf(ValuesS(EmptyS, FALSE), EmptyMap),
    \* 20: tests::test_fuzz_discriminator
    RootOf(DiscriminatorS(<<118>>,
               (<<118, 49>> :> PropertiesS((<<97>> :> TypeS("string", FALSE))
                                           @@ (<<98>> :> TypeS("timestamp", FALSE)),
                                           EmptyMap, FALSE, FALSE))
               @@ (<<118, 50>> :> PropertiesS((<<97>> :> TypeS("uint8", FALSE))
                                              @@ (<<98>> :> TypeS("float32", FALSE)),
                                              EmptyMap, FALSE, FALSE)),
               TRUE), EmptyMap),
    \* 21: a discriminator "!" over members that allow additional properties
    RootOf(DiscriminatorS(<<33>>,
               (<<120>> :> PropertiesS(EmptyMap, EmptyMap, TRUE, FALSE))
               @@ (<<121>> :> PropertiesS(EmptyMap, (<<38>> :> TypeS("boolean", FALSE)),
                                          TRUE, FALSE)),
               FALSE), EmptyMap),
    \* 22 - 26: schemas jtd's validation refuses
    RootOf(DiscriminatorS(<<97>>,
               (<<120>> :> PropertiesS(EmptyMap, EmptyMap, FALSE, TRUE)), FALSE), EmptyMap),
    RootOf(EnumS({}, TRUE), EmptyMap),
    RootOf(ElementsS(RefS(<<97>>, TRUE), FALSE), EmptyMap),
    RootOf(DiscriminatorS(<<97>>, EmptyMap, TRUE), EmptyMap),
    RootOf(DiscriminatorS(<<97>>, (<<120>> :> TypeS("uint8", FALSE)), FALSE), EmptyMap),
    \* 27: a nullable object of nullable members
    RootOf(PropertiesS((<<97>> :> TypeS("boolean", TRUE))
                       @@ (<<98>> :> EnumS({<<97>>, <<98>>}, TRUE))
                       @@ (<<99>> :> TypeS("timestamp", TRUE)),
                       (<<100>> :> ElementsS(TypeS("uint8", FALSE), TRUE)),
                       FALSE, TRUE), EmptyMap),
    \* 28: refs below properties, values, a discriminator and elements,
    \* through definitions that hold refs themselves
    RootOf(PropertiesS((<<97>> :> RefS(<<121>>, TRUE)),
                       (<<98>> :> ValuesS(RefS(<<122>>, FALSE), FALSE)),
                       FALSE, FALSE),
           (<<119>> :> ElementsS(RefS(<<122>>, FALSE), FALSE))
           @@ (<<121>> :> DiscriminatorS(<<33>>,
                              (<<116>> :> PropertiesS((<<97>> :> RefS(<<119>>, FALSE)),
                                                      EmptyMap, TRUE, FALSE)),
                              FALSE))
           @@ (<<122>> :> EmptyS))
>>

(***************************************************************************)
(* The harness of tests::assert_valid_fuzz: one schema, one seeded random  *)
(* source, fuzz called again and again on it.  A second random source,     *)
(* seeded like the first, serves a second series of calls on the same      *)
(* schema, held in a representation whose key order is order2.             *)
(***************************************************************************)

VARIABLES sid, rng, out, order2, rng2, out2

vars == <<sid, rng, out, order2, rng2, out2>>

NotCalled == [called |-> FALSE, before |-> SeedFrom(<<0>>), val |-> Null,
              log |-> <<>>, abort |-> "none", draws |-> 0]

\* the schema of this run, with its maps held in the given key order
SchemaIn(i, order) == WithField(Schemas[i], "order", order)

Init ==
    /\ sid \in 1..Len(Schemas)
    /\ \E seed \in Seeds : rng = SeedFrom(seed)
    /\ out = NotCalled
    /\ order2 = 0
    /\ rng2 = rng
    /\ out2 = NotCalled

Returned(before, r) ==
    [called |-> TRUE, before |-> before, val |-> r.val,
     log |-> r.st.log, abort |-> r.st.abort, draws |-> r.st.draws]

\* let instance = super::fuzz(&schema, &mut rng);
CallFuzz ==
    /\ out.abort = "none"
    /\ LET r == fuzz(SchemaIn(sid, 0), NewCall(rng))
       IN /\ rng' = r.st.rng
          /\ out' = Returned(rng, r)
    /\ UNCHANGED <<sid, order2, rng2, out2>>

Next == CallFuzz

Spec == Init /\ [][Next]_vars

\* two random sources seeded identically, as in the crate's doc example
InitTwice ==
    /\ sid \in 1..Len(Schemas)
    /\ \E seed \in Seeds : rng = SeedFrom(seed)
    /\ out = NotCalled
    /\ order2 \in {0, 1}
    /\ rng2 = rng
    /\ out2 = NotCalled

\* one call on each random source
CallFuzzTwice ==
    /\ out.abort = "none"
    /\ out2.abort = "none"
    /\ LET r == fuzz(SchemaIn(sid, 0), NewCall(rng))
           r2 == fuzz(SchemaIn(sid, order2), NewCall(rng2))
       IN /\ rng' = r.st.rng
          /\ out' = Returned(rng, r)
          /\ rng2' = r2.st.rng
          /\ out2' = Returned(rng2, r2)
    /\ UNCHANGED <<sid, order2>>

NextTwice == CallFuzzTwice

SpecTwice == InitTwice /\ [][NextTwice]_vars

(***************************************************************************)
(* What the generated value is judged against: jtd's validation of an      *)
(* instance against a schema, and its validation of the schema itself.     *)
(***************************************************************************)

\* an instance of a `type` schema
ValidType(type_, v) ==
    CASE type_ = "boolean" -> v.t = "bool"
      [] type_ \in {"float32", "float64"} -> v.t \in {"int", "float"}
      [] type_ = "int8" -> v.t = "int" /\ v.top = 0 /\ v.n >= -128 /\ v.n <= 127
      [] type_ = "uint8" -> v.t = "int" /\ v.top = 0 /\ v.n >= 0 /\ v.n <= 255
      [] type_ = "int16" -> v.t = "int" /\ v.top = 0 /\ v.n >= -32768 /\ v.n <= 32767
      [] type_ = "uint16" -> v.t = "int" /\ v.top = 0 /\ v.n >= 0 /\ v.n <= 65535
      [] type_ = "int32" -> v.t = "int" /\ v.top = 0
      [] type_ = "uint32" -> v.t = "int" /\ v.n >= 0
      [] type_ = "string" -> v.t = "str"
      [] type_ = "timestamp" ->
            v.t = "str" /\ v.kind = "rfc3339" /\ v.offset > -86400 /\ v.offset < 86400

\* jtd::validate(schema, instance) finds no error; parentTag is <<>> or
\* <<the discriminator a Properties schema is validated under>>
RECURSIVE Valid(_, _, _, _)
Valid(root, schema, v, parentTag) ==
    CASE schema.form = "Empty" -> TRUE
      [] schema.form = "Ref" ->
            \/ schema.nullable /\ v.t = "null"
            \/ /\ schema.ref \in DOMAIN root.definitions
               /\ Valid(root, root.definitions[schema.ref], v, <<>>)
      [] schema.form = "Type" ->
            \/ schema.nullable /\ v.t = "null"
            \/ ValidType(schema.type, v)
      [] schema.form = "Enum" ->
            \/ schema.nullable /\ v.t = "null"
            \/ v.t = "str" /\ v.kind = "ascii" /\ v.s \in schema.enum
      [] schema.form = "Elements" ->
            \/ schema.nullable /\ v.t = "null"
            \/ /\ v.t = "arr"
               /\ \A i \in 1..Len(v.a) : Valid(root, schema.elements, v.a[i], <<>>)
      [] schema.form = "Properties" ->
            \/ schema.nullable /\ v.t = "null"
            \/ /\ v.t = "obj"
               /\ \A k \in DOMAIN schema.properties :
                      k \in DOMAIN v.o /\ Valid(root, schema.properties[k], v.o[k], <<>>)
               /\ \A k \in DOMAIN schema.optional_properties :
                      k \in DOMAIN v.o
                          => Valid(root, schema.optional_properties[k], v.o[k], <<>>)
               /\ \/ schema.additional_properties
                  \/ \A k \in DOMAIN v.o :
                         \/ k \in DOMAIN schema.properties
                         \/ k \in DOMAIN schema.optional_properties
                         \/ parentTag = <<k>>
      [] schema.form = "Values" ->
            \/ schema.nullable /\ v.t = "null"
            \/ /\ v.t = "obj"
               /\ \A k \in DOMAIN v.o : Valid(root, schema.values, v.o[k], <<>>)
      [] schema.form = "Discriminator" ->
            \/ schema.nullable /\ v.t = "null"
            \/ /\ v.t = "obj"
               /\ schema.discriminator \in DOMAIN v.o
               /\ v.o[schema.discriminator].t = "str"
               /\ v.o[schema.discriminator].kind = "ascii"
               /\ v.o[schema.discriminator].s \in DOMAIN schema.mapping
               /\ Valid(root, schema.mapping[v.o[schema.discriminator].s], v,
                        <<schema.discriminator>>)

\* the sub-schemas a node holds directly
Children(n) ==
    CASE n.form = "Elements" -> {n.elements}
      [] n.form = "Values" -> {n.values}
      [] n.form = "Properties" ->
            {n.properties[k] : k \in DOMAIN n.properties}
            \cup {n.optional_properties[k] : k \in DOMAIN n.optional_properties}
      [] n.form = "Discriminator" -> {n.mapping[k] : k \in DOMAIN n.mapping}
      [] OTHER -> {}

RECURSIVE NodesUnder(_)
NodesUnder(n) == {n} \cup UNION {NodesUnder(c) : c \in Children(n)}

\* every node of a schema: the root's tree and its definitions' trees
NodesOf(root) ==
    NodesUnder(root)
    \cup UNION {NodesUnder(root.definitions[d]) : d \in DOMAIN root.definitions}

\* The invariants the generator assumes of its schema: every ref resolves,
\* required and optional names are disjoint, every mapping is non-empty
\* and maps to Properties forms.
AssumedInvariants(root) ==
    \A n \in NodesOf(root) :
        /\ n.form = "Ref" => n.ref \in DOMAIN root.definitions
        /\ n.form = "Properties" =>
               DOMAIN n.properties \cap DOMAIN n.optional_properties = {}
        /\ n.form = "Discriminator" =>
               /\ DOMAIN n.mapping # {}
               /\ \A k \in DOMAIN n.mapping : n.mapping[k].form = "Properties"

\* What jtd's validation of a schema adds: an enum has a value, and a
\* mapping's schema is not nullable.
EnumsAndMappingsSound(root) ==
    \A n \in NodesOf(root) :
        /\ n.form = "Enum" => n.enum # {}
        /\ n.form = "Discriminator" =>
               \A k \in DOMAIN n.mapping :
                   n.mapping[k].form = "Properties" => ~n.mapping[k].nullable

\* ... and a mapping's schema does not define the discriminator itself.
WellFormed(root) ==
    /\ AssumedInvariants(root)
    /\ EnumsAndMappingsSound(root)
    /\ \A n \in NodesOf(root) :
           n.form = "Discriminator" =>
               \A k \in DOMAIN n.mapping :
                   n.discriminator \notin DOMAIN n.mapping[k].properties
                                           \cup DOMAIN n.mapping[k].optional_properties

\* the events of one kind in the record of the last call
Events(kind) == {i \in 1..Len(out.log) : out.log[i].ev = kind}

TheSchema == SchemaIn(sid, 0)

(***************************************************************************)
(* C1: for a well-formed schema, every call of fuzz returns (no panic) a   *)
(* value that jtd's validation accepts for that schema.                    *)
(***************************************************************************)
C1_Valid ==
    (out.called /\ WellFormed(TheSchema))
        => /\ out.abort = "none"
           /\ Valid(TheSchema, TheSchema, out.val, <<>>)

\* a discriminated object, its tag beside other members, was generated
C1_Witness ==
    /\ out.called /\ WellFormed(TheSchema)
    /\ TheSchema.form = "Discriminator" /\ out.val.t = "obj"
    /\ Cardinality(DOMAIN out.val.o) >= 2

(***************************************************************************)
(* C2: two calls on the same schema with two random sources in the same    *)
(* state return the same value (or end the same way) and leave the two     *)
(* sources in the same state, whatever order the second schema's           *)
(* representation holds its keys in.  Checked under SpecTwice.             *)
(***************************************************************************)
C2_Deterministic ==
    out.called
        => /\ out2.called
           /\ out2.before = out.before
           /\ out2.val = out.val
           /\ out2.abort = out.abort
           /\ rng2 = rng

\* an object of several required members was generated twice, the second
\* time from a representation in the other key order
C2_Witness ==
    /\ out.called /\ out2.called /\ order2 = 1
    /\ TheSchema.form = "Properties"
    /\ Cardinality(DOMAIN TheSchema.properties) >= 2
    /\ out.val.t = "obj"
    /\ rng # out.before

(***************************************************************************)
(* C3: every generated string has at most seven characters, every          *)
(* generated array at most seven elements, every generated values object   *)
(* at most seven members, and at most seven additional properties are      *)
(* added.                                                                  *)
(***************************************************************************)
C3_AtMostSeven ==
    out.called
        => /\ \A i \in Events("string") : Len(out.log[i].s) <= 7
           /\ \A i \in Events("elements") : out.log[i].len <= 7
           /\ \A i \in Events("values") : out.log[i].members <= 7
           /\ \A i \in Events("props") :
                  Cardinality({j \in 1..Len(out.log[i].extras) :
                                   out.log[i].extras[j].inserted}) <= 7

(***************************************************************************)
(* C4: every character of every string fuzz_string generates is printable  *)
(* ASCII, a code of 32..126.                                               *)
(***************************************************************************)
C4_PrintableAscii ==
    out.called
        => \A i \in Events("string") :
               \A j \in 1..Len(out.log[i].s) :
                   out.log[i].s[j] >= 32 /\ out.log[i].s[j] <= 126

(***************************************************************************)
(* C5: in every object generated for a Properties node every required      *)
(* name is a key, and an optional name is a key only if its coin did not   *)
(* leave it out.                                                           *)
(***************************************************************************)
C5_RequiredAndSelected ==
    out.called
        => \A i \in Events("props") :
               LET e == out.log[i]
               IN /\ \A k \in DOMAIN e.schema.properties : k \in DOMAIN e.obj
                  /\ \A k \in DOMAIN e.schema.optional_properties :
                         k \in DOMAIN e.obj => k \notin e.skipped

\* an object was generated with a required member, and an optional name
\* that its coin left out was drawn again as an additional key
C5_Witness ==
    /\ out.called
    /\ \E i \in Events("props") :
           LET e == out.log[i]
           IN /\ DOMAIN e.schema.properties # {}
              /\ \E j \in 1..Len(e.extras) : e.extras[j].key \in e.skipped

(***************************************************************************)
(* C6: no key the additional-properties pass inserts equals, ignoring      *)
(* case, a required or optional name of its node.                          *)
(***************************************************************************)
ToUpperChar(c) == IF c >= 97 /\ c <= 122 THEN c - 32 ELSE c

EqIgnoreCase(a, b) ==
    /\ Len(a) = Len(b)
    /\ \A i \in 1..Len(a) : ToUpperChar(a[i]) = ToUpperChar(b[i])

MemberNames(schema) == DOMAIN schema.properties \cup DOMAIN schema.optional_properties

C6_NoCaseCollision ==
    out.called
        => \A i \in Events("props") :
               LET e == out.log[i]
               IN \A j \in 1..Len(e.extras) :
                      e.extras[j].inserted
                          => /\ e.extras[j].key \in DOMAIN e.obj
                             /\ \A m \in MemberNames(e.schema) :
                                    ~EqIgnoreCase(e.extras[j].key, m)

\* one drawn key was inserted, another was dropped because it differs from
\* a member name in case only
C6_Witness ==
    /\ out.called
    /\ \E i \in Events("props") :
           LET e == out.log[i]
           IN /\ \E j \in 1..Len(e.extras) : e.extras[j].inserted
              /\ \E j \in 1..Len(e.extras) :
                     /\ ~e.extras[j].inserted
                     /\ e.extras[j].key \notin MemberNames(e.schema)
                     /\ \E m \in MemberNames(e.schema) :
                            EqIgnoreCase(e.extras[j].key, m)

(***************************************************************************)
(* C7: a non-null value generated for a Discriminator node is an object    *)
(* whose discriminator member is the chosen tag (whatever member of that   *)
(* name the sub-schema generated), and which, that member set aside, is    *)
(* valid for the schema the mapping gives for that tag.                    *)
(***************************************************************************)
MapWithout(m, k) == [x \in DOMAIN m \ {k} |-> m[x]]

C7_DiscriminatorShape ==
    (out.called /\ WellFormed(TheSchema))
        => /\ \A i \in Events("disc") :
                  LET e == out.log[i]
                      d == e.schema.discriminator
                  IN /\ d \in DOMAIN e.obj
                     /\ e.obj[d] = JStr(e.tag)
                     /\ e.tag \in DOMAIN e.schema.mapping
                     /\ Valid(TheSchema, e.schema.mapping[e.tag],
                              JObj(MapWithout(e.obj, d)), <<>>)
           /\ (TheSchema.form = "Discriminator" /\ out.val.t # "null")
                  => /\ out.val.t = "obj"
                     /\ \E i \in Events("disc") :
                            /\ out.log[i].schema = TheSchema
                            /\ out.val = JObj(out.log[i].obj)

\* the sub-schema generated a member named like the discriminator, and the
\* tag replaced it
C7_Witness ==
    /\ out.called /\ WellFormed(TheSchema)
    /\ \E i \in Events("disc") :
           LET e == out.log[i]
               d == e.schema.discriminator
           IN /\ d \in DOMAIN e.sub
              /\ e.sub[d] # JStr(e.tag)
              /\ e.obj[d] = JStr(e.tag)
              /\ Cardinality(DOMAIN e.schema.mapping) >= 2

(***************************************************************************)
(* C8: a value generated for an Empty node holds at most one level of      *)
(* container: the elements of its array, or the members of its object,     *)
(* are null, a boolean, a u8, a float or a string; and Empty generation    *)
(* never exhausts the stack.                                               *)
(***************************************************************************)
EmptyScalar(v) ==
    \/ v.t \in {"null", "bool", "float"}
    \/ v.t = "int" /\ v.top = 0 /\ v.n >= 0 /\ v.n <= 255
    \/ v.t = "str" /\ v.kind = "ascii"

OneLevel(v) ==
    CASE v.t = "arr" -> \A i \in 1..Len(v.a) : EmptyScalar(v.a[i])
      [] v.t = "obj" -> \A k \in DOMAIN v.o : EmptyScalar(v.o[k])
      [] OTHER -> EmptyScalar(v)

C8_EmptyOneLevel ==
    out.called
        => /\ out.abort # "stack"
           /\ \A i \in Events("empty") : OneLevel(out.log[i].val)
           /\ \A i \in Events("props") :
                  \A j \in 1..Len(out.log[i].extras) :
                      OneLevel(out.log[i].extras[j].val)

\* an Empty node inside a user schema gave a scalar, and the Empty value
\* of an additional property gave a container that is not empty
C8_Witness ==
    /\ out.called
    /\ \E i \in Events("empty") : ~out.log[i].rootIsSchema
    /\ \E i \in Events("props") :
           \E j \in 1..Len(out.log[i].extras) :
               LET v == out.log[i].extras[j].val
               IN \/ v.t = "arr" /\ Len(v.a) >= 1
                  \/ v.t = "obj" /\ DOMAIN v.o # {}

(***************************************************************************)
(* C9: fuzzHint changes the output only on a `type: string` node whose     *)
(* hint is one of the values the documentation of fuzz lists; any other    *)
(* hint, on any node, leaves the output what it is without the hint.       *)
(***************************************************************************)
DocumentedHints == {
    "en_us/addresses/city_name", "en_us/addresses/division_abbreviation",
    "en_us/addresses/division", "en_us/addresses/postal_code",
    "en_us/addresses/secondary_address", "en_us/addresses/street_address",
    "en_us/addresses/street_name", "en_us/company/company_name",
    "en_us/company/slogan", "en_us/internet/domain", "en_us/internet/email",
    "en_us/internet/username", "en_us/names/first_name",
    "en_us/names/full_name", "en_us/names/last_name",
    "en_us/names/name_prefix", "en_us/names/name_suffix",
    "en_us/phones/phone_number",
    "fr_fr/addresses/address", "fr_fr/addresses/city_name",
    "fr_fr/addresses/division", "fr_fr/addresses/postal_code",
    "fr_fr/addresses/secondary_address", "fr_fr/addresses/street_address",
    "fr_fr/addresses/street_name", "fr_fr/company/company_name",
    "fr_fr/internet/domain", "fr_fr/internet/email", "fr_fr/internet/username",
    "fr_fr/names/first_name", "fr_fr/names/full_name", "fr_fr/names/last_name",
    "fr_fr/names/name_prefix", "fr_fr/phones/phone_number",
    "lorem/word", "lorem/sentence", "lorem/paragraph", "lorem/paragraphs" }

HintMayCount(n) ==
    /\ n.form = "Type" /\ n.type = "string"
    /\ FuzzHintOf(n.metadata) # <<>>
    /\ FuzzHintOf(n.metadata)[1] \in DocumentedHints

MapEach(m, Op(_)) == [k \in DOMAIN m |-> Op(m[k])]

\* the schema with every fuzzHint removed that the claim calls inert
RECURSIVE WithoutInertHints(_)
WithoutInertHints(n) ==
    LET m == IF HintMayCount(n) THEN n.metadata
             ELSE MapWithout(n.metadata, METADATA_KEY_FUZZ_HINT)
        n1 == [n EXCEPT !.metadata = m]
        n2 == CASE n.form = "Elements" ->
                      [n1 EXCEPT !.elements = WithoutInertHints(n.elements)]
                [] n.form = "Values" ->
                      [n1 EXCEPT !.values = WithoutInertHints(n.values)]
                [] n.form = "Properties" ->
                      [n1 EXCEPT !.properties = MapEach(n.properties, WithoutInertHints),
                                 !.optional_properties =
                                     MapEach(n.optional_properties, WithoutInertHints)]
                [] n.form = "Discriminator" ->
                      [n1 EXCEPT !.mapping = MapEach(n.mapping, WithoutInertHints)]
                [] OTHER -> n1
    IN IF "definitions" \in DOMAIN n
       THEN [n2 EXCEPT !.definitions = MapEach(n.definitions, WithoutInertHints)]
       ELSE n2

C9_OnlyDocumentedHints ==
    out.called
        => LET r == fuzz(WithoutInertHints(TheSchema), NewCall(out.before))
           IN r.val = out.val /\ r.st.rng = rng /\ r.st.abort = out.abort

(***************************************************************************)
(* C10: no call of fuzz on a schema that satisfies the assumed invariants  *)
(* ends in a panic.  As amended: ... the assumed invariants, and whose     *)
(* enums each have a value and whose mappings hold no nullable schema.     *)
(***************************************************************************)
C10_NoPanicAssumed ==
    (out.called /\ AssumedInvariants(TheSchema)) => out.abort = "none"

C10_NoPanic ==
    (out.called /\ AssumedInvariants(TheSchema) /\ EnumsAndMappingsSound(TheSchema))
        => out.abort = "none"

\* a ref was looked up, an enum value or a mapping entry was chosen and a
\* discriminated sub-value was converted to an object, without a panic
C10_Witness ==
    /\ out.called /\ out.abort = "none" /\ out.val.t # "null"
    /\ AssumedInvariants(TheSchema) /\ EnumsAndMappingsSound(TheSchema)
    /\ \/ TheSchema.form = "Enum"
       \/ TheSchema.form = "Discriminator" /\ Events("empty") # {}
       \/ \E n \in NodesOf(TheSchema) : n.form = "Ref"

(***************************************************************************)
(* The command-line program (main.rs).  It has its own generator: lengths  *)
(* and characters come from half-open ranges, collections are HashMap and  *)
(* HashSet (iterated in an order that changes from run to run), an         *)
(* optional member is included when its coin is true, and fuzz_any always  *)
(* draws among seven outcomes.                                             *)
(***************************************************************************)

\* rng.gen_range(low, high): high is excluded
main_gen_range(w, low, high) == GenRange(w, low, high - 1)

RECURSIVE main_fuzz_chars(_, _)
main_fuzz_chars(st, n) ==
    IF n = 0 THEN [s |-> <<>>, st |-> st]
    ELSE LET c == main_gen_range(Word(st), 32, 127)
             rest == main_fuzz_chars(Step(st), n - 1)
         IN [s |-> <<c>> \o rest.s, st |-> rest.st]

main_fuzz_str(st) ==
    main_fuzz_chars(Step(st), main_gen_range(Word(st), 0, 8))

main_fuzz_string(st) ==
    LET r == main_fuzz_str(st) IN [val |-> JStr(r.s), st |-> r.st]

\* NaiveDateTime::from_timestamp(rng.gen::<i32>() as i64, 0), in UTC
main_fuzz_timestamp(st) ==
    [val |-> JTimestamp(0, GenI32(Word(st))), st |-> Step(st)]

main_fuzz_scalar(st, type_value) ==
    LET w == Word(st)
        one(v) == [val |-> v, st |-> Step(st)]
    IN CASE type_value = "boolean" -> one(JBool(GenBool(w)))
         [] type_value = "int8"    -> one(JInt(GenI8(w)))
         [] type_value = "uint8"   -> one(JInt(GenU8(w)))
         [] type_value = "int16"   -> one(JInt(GenI16(w)))
         [] type_value = "uint16"  -> one(JInt(GenU16(w)))
         [] type_value = "int32"   -> one(JInt(GenI32(w)))
         [] type_value = "uint32"  -> one(JUint32(w))
         [] type_value = "float32" -> one(JFloat(w))
         [] type_value = "float64" -> one(JFloat(w))
         [] type_value = "string"  -> main_fuzz_string(st)
         [] type_value = "timestamp" -> main_fuzz_timestamp(st)

\* iteration over a HashMap's keys or a HashSet: the order of this run
HashIter(S, order) == KeysInOrder(S, order)

RECURSIVE main_fuzz(_, _, _)

RECURSIVE main_elems_loop(_, _, _, _, _)
main_elems_loop(root, st, sub_schema, n, acc) ==
    IF n = 0 \/ st.abort # "none" THEN [val |-> acc, st |-> st]
    ELSE LET r == main_fuzz(root, st, sub_schema)
         IN main_elems_loop(root, r.st, sub_schema, n - 1, Append(acc, r.val))

main_fuzz_elems(root, st, sub_schema) ==
    LET r == main_elems_loop(root, Step(st), sub_schema,
                             main_gen_range(Word(st), 0, 8), <<>>)
    IN [val |-> JArr(r.val), st |-> r.st]

RECURSIVE main_values_loop(_, _, _, _, _)
main_values_loop(root, st, sub_schema, n, acc) ==
    IF n = 0 \/ st.abort # "none" THEN [val |-> acc, st |-> st]
    ELSE LET k == main_fuzz_str(st)
             r == main_fuzz(root, k.st, sub_schema)
         IN main_values_loop(root, r.st, sub_schema, n - 1,
                             MapInsert(acc, k.s, r.val))

main_fuzz_values(root, st, sub_schema) ==
    LET r == main_values_loop(root, Step(st), sub_schema,
                              main_gen_range(Word(st), 0, 8), EmptyMap)
    IN [val |-> JObj(r.val), st |-> r.st]

main_fuzz_any(root, st) ==
    LET s1 == Step(st)
        choice == main_gen_range(Word(st), 0, 7)
    IN CASE choice = 0 -> [val |-> Null, st |-> s1]
         [] choice = 1 -> main_fuzz_scalar(s1, "boolean")
         [] choice = 2 -> main_fuzz_scalar(s1, "uint8")
         [] choice = 3 -> main_fuzz_scalar(s1, "float64")
         [] choice = 4 -> main_fuzz_string(s1)
         [] choice = 5 -> main_fuzz_elems(root, s1, SynthEmpty)
         [] choice = 6 -> main_fuzz_values(root, s1, SynthEmpty)
         [] OTHER -> Panic(s1, "unreachable")

main_fuzz_enum(st, vals, order) ==
    LET chosen == Choose(HashIter(vals, order), Word(st))
    IN IF chosen = <<>> THEN Panic(st, "enum")
       ELSE [val |-> JStr(chosen[1]), st |-> Step(st)]

RECURSIVE main_required_loop(_, _, _, _, _)
main_required_loop(root, st, required, keys, vals) ==
    IF keys = <<>> \/ st.abort # "none" THEN [val |-> vals, st |-> st]
    ELSE LET r == main_fuzz(root, st, required[Head(keys)])
         IN main_required_loop(root, r.st, required, Tail(keys),
                               MapInsert(vals, Head(keys), r.val))

\* `if rng.gen() { vals.push(...) }`
RECURSIVE main_optional_loop(_, _, _, _, _)
main_optional_loop(root, st, optional, keys, vals) ==
    IF keys = <<>> \/ st.abort # "none" THEN [val |-> vals, st |-> st]
    ELSE LET r == main_fuzz(root, Step(st), optional[Head(keys)])
         IN IF GenBool(Word(st))
            THEN main_optional_loop(root, r.st, optional, Tail(keys),
                                    MapInsert(vals, Head(keys), r.val))
            ELSE main_optional_loop(root, Step(st), optional, Tail(keys), vals)

\* vals.push((fuzz_str(rng), fuzz_any(root, rng))); collecting the pairs
\* into a Map keeps the last value pushed for a key
RECURSIVE main_additional_loop(_, _, _, _)
main_additional_loop(root, st, n, vals) ==
    IF n = 0 \/ st.abort # "none" THEN [val |-> vals, st |-> st]
    ELSE LET k == main_fuzz_str(st)
             r == main_fuzz_any(root, k.st)
         IN main_additional_loop(root, r.st, n - 1, MapInsert(vals, k.s, r.val))

main_fuzz_props(root, st, required, optional, additional) ==
    LET req == main_required_loop(root, st, required,
                                  HashIter(DOMAIN required, root.order), EmptyMap)
        opt == main_optional_loop(root, req.st, optional,
                                  HashIter(DOMAIN optional, root.order), req.val)
        add == IF additional /\ opt.st.abort = "none"
               THEN main_additional_loop(root, Step(opt.st),
                        main_gen_range(Word(opt.st), 0, 8), opt.val)
               ELSE opt
    IN [val |-> JObj(add.val), st |-> add.st]

main_fuzz_discr(root, st, tag, mapping) ==
    LET chosen == Choose(HashIter(DOMAIN mapping, root.order), Word(st))
        obj == main_fuzz(root, Step(st), mapping[chosen[1]])
    IN IF chosen = <<>> THEN Panic(st, "mapping")
       ELSE IF obj.st.abort # "none" THEN obj
       ELSE IF obj.val.t # "obj" THEN Panic(obj.st, "as_object_mut")
       ELSE [val |-> JObj(MapInsert(obj.val.o, tag, JStr(chosen[1]))),
             st |-> obj.st]

main_match_form(root, st, schema) ==
    LET c == NullCoin(st, schema.form # "Empty" /\ schema.nullable)
    IN IF schema.form = "Empty" THEN main_fuzz_any(root, st)
       ELSE IF c.null THEN [val |-> Null, st |-> c.st]
       ELSE CASE schema.form = "Ref" ->
                     IF schema.ref \notin DOMAIN root.definitions
                     THEN Panic(c.st, "definitions")
                     ELSE main_fuzz(root, c.st, root.definitions[schema.ref])
              [] schema.form = "Type" -> main_fuzz_scalar(c.st, schema.type)
              [] schema.form = "Enum" ->
                     main_fuzz_enum(c.st, schema.enum, root.order)
              [] schema.form = "Elements" ->
                     main_fuzz_elems(root, c.st, schema.elements)
              [] schema.form = "Properties" ->
                     main_fuzz_props(root, c.st, schema.properties,
                                     schema.optional_properties,
                                     schema.additional_properties)
              [] schema.form = "Values" ->
                     main_fuzz_values(root, c.st, schema.values)
              [] schema.form = "Discriminator" ->
                     main_fuzz_discr(root, c.st, schema.discriminator,
                                     schema.mapping)

\* fn fuzz(root, rng, schema) of main.rs; recursion deeper than the stack
\* holds ends the process
main_fuzz(root, st, schema) ==
    IF st.abort # "none" THEN [val |-> Null, st |-> st]
    ELSE IF st.depth >= MaxDepth THEN Panic(st, "stack")
    ELSE LET r == main_match_form(root, [st EXCEPT !.depth = st.depth + 1], schema)
         IN [val |-> r.val, st |-> [r.st EXCEPT !.depth = st.depth]]

(***************************************************************************)
(* main: the generation loop.  `i` is a usize, here UsizeBits wide; what   *)
(* `i += 1` does at usize::MAX depends on the build: a panic with overflow *)
(* checks (debug), a wrap to zero without (release).                       *)
(***************************************************************************)

\* the width of usize in the model
UsizeBits == 2

USIZE_MAX == 2^UsizeBits - 1

\* the schemas of the catalogue given to the program: those jtd accepts
CliSchemaIds == {1, 2, 4, 12, 13, 14, 16, 18, 20}

CliSeeds == {s \in Seeds : Len(s) <= 2}

Builds == {"debug", "release"}

\* a run before the first test of the loop condition; `lines` counts the
\* lines printed, up to one more than a usize can count
Started(num_values, build) ==
    [pc |-> "loop", num_values |-> num_values, i |-> 0, lines |-> 0,
     last |-> Null, build |-> build, abort |-> "none"]

Printed(run, val) ==
    [run EXCEPT !.last = val,
                !.lines = IF @ <= USIZE_MAX + 1 THEN @ + 1 ELSE @]

\* i += 1
Increment(run) ==
    IF run.i < USIZE_MAX THEN [run EXCEPT !.i = @ + 1]
    ELSE IF run.build = "debug"
         THEN [run EXCEPT !.pc = "panic", !.abort = "overflow"]
         ELSE [run EXCEPT !.i = 0]

\* one test of `i != num_values || num_values == 0`, and the body if it holds
MainIteration(run, g, order) ==
    LET schema == SchemaIn(sid, order)
        r == main_fuzz(schema, NewCall(g), schema)
    IN IF ~(run.i # run.num_values \/ run.num_values = 0)
       THEN [run |-> [run EXCEPT !.pc = "exit_ok"], rng |-> g]
       ELSE IF r.st.abort # "none"
       THEN [run |-> [run EXCEPT !.pc = "panic", !.abort = r.st.abort],
             rng |-> r.st.rng]
       ELSE [run |-> Increment(Printed(run, r.val)), rng |-> r.st.rng]

InitCli ==
    /\ sid \in CliSchemaIds
    /\ \E seed \in CliSeeds : rng = SeedFrom(seed)
    /\ \E n \in 0..USIZE_MAX, b \in Builds : out = Started(n, b)
    /\ order2 = 0
    /\ rng2 = rng
    /\ out2 = out

MainLoop ==
    /\ out.pc = "loop"
    /\ \E it \in {MainIteration(out, rng, 0)} : out' = it.run /\ rng' = it.rng
    /\ UNCHANGED <<sid, order2, rng2, out2>>

NextCli == MainLoop

SpecCli == InitCli /\ [][NextCli]_vars

\* two runs of the program with the same arguments; the second one's hash
\* collections iterate in their own order
InitCliTwice ==
    /\ sid \in CliSchemaIds
    /\ \E seed \in CliSeeds : rng = SeedFrom(seed)
    /\ \E n \in 0..USIZE_MAX, b \in Builds : out = Started(n, b)
    /\ order2 \in {0, 1}
    /\ rng2 = rng
    /\ out2 = out

MainLoopTwice ==
    /\ out.pc = "loop" /\ out2.pc = "loop"
    /\ \E it \in {MainIteration(out, rng, 0)} : out' = it.run /\ rng' = it.rng
    /\ \E it2 \in {MainIteration(out2, rng2, order2)} :
           out2' = it2.run /\ rng2' = it2.rng
    /\ UNCHANGED <<sid, order2>>

NextCliTwice == MainLoopTwice

SpecCliTwice == InitCliTwice /\ [][NextCliTwice]_vars

(***************************************************************************)
(* C11: with -n N and N > 0 the loop prints exactly N values and the       *)
(* program then exits successfully; with N = 0 the loop never exits.       *)
(* As far as a state can show it wrong, and leaving aside a run ended by   *)
(* a panic of the generator: a run with N > 0 has printed no more than N   *)
(* lines, and N when it exits; a run with N = 0 is still in its loop.      *)
(***************************************************************************)
C11_LoopCount ==
    out.abort \in {"none", "overflow"}
        => /\ out.num_values > 0 =>
                  /\ out.pc # "panic"
                  /\ out.lines <= out.num_values
                  /\ out.pc = "exit_ok" => out.lines = out.num_values
           /\ out.num_values = 0 => out.pc = "loop"

(***************************************************************************)
(* C12: two runs of the program with the same non-zero seed, the same      *)
(* schema and the same count print the same values, whatever order their   *)
(* hash collections iterate in.                                            *)
(***************************************************************************)
C12_SameSeedSameOutput ==
    /\ out.lines = out2.lines
    /\ out.last = out2.last
    /\ out.pc = out2.pc
    /\ rng = rng2

(***************************************************************************)
(* C13: a nullable node draws exactly one boolean before anything else;    *)
(* on true the result is null and nothing more is drawn or visited; on     *)
(* false the rest is what the same node draws when it is not nullable.  A  *)
(* node that is not nullable draws no coin: its first draw is the one its  *)
(* form's rule starts with.                                                *)
(***************************************************************************)
\* the nodes of the schema that are not its root
InnerNodes(root) == NodesOf(root) \ {root}

\* the call of fuzz_with_root on an inner node, the random source as it
\* was before the call of this run
RunNode(n) == fuzz_with_root(TheSchema, NewCall(out.before), n, FALSE)

RunNodeAfterCoin(n) ==
    fuzz_with_root(TheSchema, Step(NewCall(out.before)), n, FALSE)

NotNullable(n) == [n EXCEPT !.nullable = FALSE]

SameOutcome(r1, r2) ==
    /\ r1.val = r2.val
    /\ r1.st.rng = r2.st.rng
    /\ r1.st.draws = r2.st.draws
    /\ r1.st.abort = r2.st.abort

CoinFirst(n, r, rAfter) ==
    IF GenBool(Raw(out.before))
    THEN r.val = Null /\ r.st.draws = 1 /\ r.st.log = <<>> /\ r.st.abort = "none"
    ELSE SameOutcome(r, rAfter)

\* what the first draw of a node without a coin is used for
NoCoin(n, r) ==
    LET w == Raw(out.before)
    IN CASE n.form = "Type" /\ n.type = "timestamp" ->
                r.st.draws = 2 /\ r.val.offset = GenRange(w, -50400, 50400)
         [] n.form = "Type" /\ n.type = "boolean" ->
                r.st.draws = 1 /\ r.val = JBool(GenBool(w))
         [] n.form = "Type" /\ n.type = "uint8" ->
                r.st.draws = 1 /\ r.val = JInt(GenU8(w))
         [] n.form = "Enum" /\ n.enum # {} -> r.st.draws = 1
         [] n.form = "Elements" /\ r.st.abort = "none" ->
                Len(r.val.a) = GenRange(w, 0, MAX_SEQ_LENGTH)
         [] n.form = "Ref" /\ n.ref \in DOMAIN TheSchema.definitions ->
                SameOutcome(r, RunNode(TheSchema.definitions[n.ref]))
         [] OTHER -> r.val # Null \/ r.st.abort # "none"

C13_NullCoinFirst ==
    out.called
        => /\ \A n \in InnerNodes(TheSchema) :
                  n.form # "Empty" =>
                      IF n.nullable
                      THEN CoinFirst(n, RunNode(n), RunNodeAfterCoin(NotNullable(n)))
                      ELSE NoCoin(n, RunNode(n))
           /\ TheSchema.form # "Empty" =>
                  IF TheSchema.nullable
                  THEN CoinFirst(TheSchema, fuzz(TheSchema, NewCall(out.before)),
                                 fuzz(NotNullable(TheSchema),
                                      Step(NewCall(out.before))))
                  ELSE NoCoin(TheSchema, fuzz(TheSchema, NewCall(out.before)))

\* a nullable root whose coin was false and that generated members from
\* nullable inner nodes, some null and some not
C13_Witness ==
    /\ out.called /\ out.abort = "none"
    /\ TheSchema.form = "Properties" /\ TheSchema.nullable
    /\ ~GenBool(Raw(out.before))
    /\ out.val.t = "obj" /\ out.draws > 3
    /\ \E n \in InnerNodes(TheSchema) : n.form # "Empty" /\ n.nullable
    /\ \E k \in DOMAIN out.val.o : out.val.o[k] = Null
    /\ \E k \in DOMAIN out.val.o : out.val.o[k] # Null

(***************************************************************************)
(* The steps of the Properties nodes of a call, read back from its log.    *)
(***************************************************************************)

\* the word the d-th draw of the call took (d counted from 0)
WordAt(d) ==
    out.before.seed[((out.before.pos + d) % Len(out.before.seed)) + 1]

\* the generation state of the call when d draws were made, at a depth
StateAt(d, depth) ==
    [NewCall(out.before) EXCEPT
        !.rng = [seed |-> out.before.seed,
                 pos |-> (out.before.pos + d) % Len(out.before.seed)],
        !.draws = d, !.depth = depth]

\* the steps of one Properties node: the member events logged at its depth
\* since the Properties node before it at that depth was finished
StepsOf(log, j) ==
    {i \in 1..(j - 1) :
        /\ log[i].ev = "member" /\ log[i].depth = log[j].depth
        /\ \A m \in (i + 1)..(j - 1) :
               ~(log[m].ev = "props" /\ log[m].depth = log[j].depth)}

OptionalSteps(log, j) == {i \in StepsOf(log, j) : log[i].group = "optional"}

(***************************************************************************)
(* C14: for every optional member exactly one boolean is drawn; when it    *)
(* is true the member is generated and included, when it is false the      *)
(* member is omitted and nothing is drawn for its sub-schema.              *)
(* As amended: ...; when it is false the member is generated and           *)
(* included, when it is true the member is omitted and nothing is drawn    *)
(* for its sub-schema.                                                     *)
(***************************************************************************)
\* one step for each optional name, its coin the draw the step starts with
OneCoinEach(log, j) ==
    /\ \A k \in DOMAIN log[j].schema.optional_properties :
           Cardinality({i \in OptionalSteps(log, j) : log[i].key = k}) = 1
    /\ \A i \in OptionalSteps(log, j) :
           /\ log[i].key \in DOMAIN log[j].schema.optional_properties
           /\ log[i].coin = GenBool(WordAt(log[i].from))

\* the member of step e is in the object, with the value its sub-schema
\* generates from the draws after the coin
Included(e, P) ==
    LET r == fuzz_with_root(TheSchema, StateAt(e.from + 1, e.depth),
                            P.schema.optional_properties[e.key], FALSE)
    IN /\ e.key \in DOMAIN P.obj
       /\ P.obj[e.key] = r.val
       /\ e.to = r.st.draws

Omitted(e, P) == e.key \notin DOMAIN P.obj /\ e.to = e.from + 1

GroupRank(group) ==
    CASE group = "required" -> 1
      [] group = "optional" -> 2
      [] group = "count" -> 3
      [] group = "additional" -> 4

\* step a of the node comes before step b in the order claimed
ClaimedBefore(log, a, b) ==
    \/ GroupRank(log[a].group) < GroupRank(log[b].group)
    \/ /\ log[a].group = log[b].group
       /\ IF log[a].group = "additional" THEN a < b
          ELSE StrLess(log[a].key, log[b].key)

\* each member and the count have their step, and the steps take the draws
\* of the node one after the other, in the order claimed
InClaimedOrder(log, j) ==
    LET P == log[j]
        S == StepsOf(log, j)
        keys(group) == {log[i].key : i \in {x \in S : log[x].group = group}}
        count == {i \in S : log[i].group = "count"}
        first == {i \in S : \A b \in S \ {i} : ClaimedBefore(log, i, b)}
        last == {i \in S : \A a \in S \ {i} : ClaimedBefore(log, a, i)}
    IN /\ keys("required") = DOMAIN P.schema.properties
       /\ keys("optional") = DOMAIN P.schema.optional_properties
       /\ Cardinality(count) = IF P.schema.additional_properties THEN 1 ELSE 0
       /\ \A i \in count :
              Cardinality({x \in S : log[x].group = "additional"}) = log[i].val.n
       /\ \A a, b \in S : a # b =>
              ClaimedBefore(log, a, b) \/ ClaimedBefore(log, b, a)
       /\ \A a, b \in S :
              (a # b /\ ClaimedBefore(log, a, b)) => log[a].to <= log[b].from
       /\ \A i \in first : log[i].from = P.from
       /\ \A i \in last : log[i].to = P.to
       /\ \A i \in S \ first : \E a \in S : log[a].to = log[i].from
       /\ S = {} => P.to = P.from

C15_DrawOrder ==
    out2.called => \A j \in {i \in 1..Len(out2.log) : out2.log[i].ev = "props"} :
                       InClaimedOrder(out2.log, j)

\* a representation in descending key order, and an object of two required
\* members, two optional ones that were both generated, and additional ones
C15_Witness ==
    /\ out2.called /\ out2.abort = "none" /\ order2 = 1
    /\ \E j \in 1..Len(out2.log) :
           /\ out2.log[j].ev = "props"
           /\ LET S == StepsOf(out2.log, j)
                  n(group) == Cardinality({i \in S : out2.log[i].group = group})
              IN /\ n("required") >= 2 /\ n("additional") >= 2
                 /\ Cardinality({i \in S : /\ out2.log[i].group = "optional"
                                           /\ out2.log[i].to > out2.log[i].from + 1}) >= 2

(***************************************************************************)
(* C16: every Ref node reached during a call fuzz(S, rng) is resolved      *)
(* against the definitions of S; the schemas synthesized for Empty nodes   *)
(* and additional properties, generated under a root of their own, never   *)
(* make a Ref resolve against another root.                                *)
(***************************************************************************)
C16_RefsAgainstRoot ==
    out.called =>
        \A i \in Events("ref") :
            /\ out.log[i].root = TheSchema
            /\ out.log[i].root.definitions = TheSchema.definitions

\* refs were resolved two and more levels down, one of them reached from a
\* definition, in a call that also generated values under synthesized roots
C16_Witness ==
    /\ out.called /\ out.abort = "none"
    /\ \E i, j \in Events("ref") :
           /\ out.log[i].depth >= 2
           /\ out.log[j].depth > out.log[i].depth + 1
    /\ \E i \in Events("empty") : out.log[i].rootIsSchema
    /\ \E i \in Events("empty") : ~out.log[i].rootIsSchema

(***************************************************************************)
(* C17: every timestamp generated for a `type: timestamp` node has a UTC   *)
(* offset of -50400..50400 seconds and an instant whose epoch seconds are  *)
(* in the signed 32-bit range; two draws are made for it, the first for    *)
(* the offset and the second for the epoch seconds.                        *)
(***************************************************************************)
RECURSIVE ValuesIn(_)
ValuesIn(v) ==
    {v} \cup CASE v.t = "arr" -> UNION {ValuesIn(v.a[i]) : i \in 1..Len(v.a)}
               [] v.t = "obj" -> UNION {ValuesIn(v.o[k]) : k \in DOMAIN v.o}
               [] OTHER -> {}

IsTimestamp(v) == v.t = "str" /\ v.kind = "rfc3339"

TimestampNodes(root) ==
    {n \in NodesOf(root) : n.form = "Type" /\ n.type = "timestamp"}

C17_TimestampRanges ==
    out.called =>
        /\ \A v \in ValuesIn(out.val) :
               IsTimestamp(v) =>
                   /\ v.offset >= -50400 /\ v.offset <= 50400
                   /\ v.secs >= -2147483647 - 1 /\ v.secs <= 2147483647
        /\ \A n \in TimestampNodes(TheSchema) :
               LET r == RunNode(NotNullable(n))
               IN /\ IsTimestamp(r.val)
                  /\ r.st.draws = 2
                  /\ r.val.offset = GenRange(WordAt(0), -50400, 50400)
                  /\ r.val.secs = GenI32(WordAt(1))

\* timestamps at both ends of the offset range, one of them before 1970
C17_Witness ==
    /\ out.called /\ out.abort = "none"
    /\ \E v, w \in ValuesIn(out.val) :
           /\ IsTimestamp(v) /\ v.offset = -50400 /\ v.secs < 0
           /\ IsTimestamp(w) /\ w.offset = 50400

(***************************************************************************)
(* C18: every length drawn for a string, an array, a values map and an     *)
(* additional-properties pass is one of 0..8, so no generated string,      *)
(* array or values map is longer than eight; a values map and the          *)
(* additional keys may be fewer than the draws when keys coincide.         *)
(***************************************************************************)
Inserted(extras) == {extras[j].key : j \in {x \in 1..Len(extras) : extras[x].inserted}}

C18_AtMostEight ==
    out.called
        => /\ \A i \in Events("string") : Len(out.log[i].s) \in 0..8
           /\ \A i \in Events("elements") : out.log[i].len \in 0..8
           /\ \A i \in Events("values") :
                  /\ out.log[i].drawn \in 0..8
                  /\ out.log[i].members <= out.log[i].drawn
           /\ \A i \in Events("props") :
                  /\ Len(out.log[i].extras) \in 0..8
                  /\ Cardinality(Inserted(out.log[i].extras)) <= Len(out.log[i].extras)
           /\ \A v \in ValuesIn(out.val) :
                  /\ (v.t = "str" /\ v.kind = "ascii") => Len(v.s) <= 8
                  /\ v.t = "arr" => Len(v.a) <= 8

\* lengths of eight were drawn, and a values map and an additional-
\* properties pass ended with fewer members than draws
C18_Witness ==
    /\ out.called /\ out.abort = "none"
    /\ \/ /\ \E i \in Events("string") : Len(out.log[i].s) = 8
          /\ \E i \in Events("values") :
                 out.log[i].drawn = 8 /\ out.log[i].members < 8
       \/ /\ \E i \in Events("elements") : out.log[i].len = 8
          /\ \E i \in Events("props") :
                 /\ Len(out.log[i].extras) = 8
                 /\ Cardinality(Inserted(out.log[i].extras)) < 8

(***************************************************************************)
(* C19: an Empty node draws among all seven outcomes only when it is the   *)
(* schema passed to the top-level call of fuzz; inside a structural        *)
(* generator (an element, a value of a values map, a member of a           *)
(* Properties object, the value of an additional property included) it     *)
(* draws among the first five and never yields an array or object.         *)
(* As amended: ... only when it is the schema passed to a call of fuzz:    *)
(* the top-level call, or the call made on a fresh Empty schema for the    *)
(* value of an additional property; an Empty node that is an element, a    *)
(* value of a values map, a required or optional member or the target of   *)
(* a Ref draws among the first five and never yields an array or object.   *)
(***************************************************************************)
IsContainer(v) == v.t \in {"arr", "obj"}

SevenOutcomes(log) == {i \in 1..Len(log) : log[i].ev = "empty" /\ log[i].rootIsSchema}

\* the values generated for the additional properties that were inserted
InsertedValues(log) ==
    {<<i, j>> \in (1..Len(log)) \X (1..MAX_SEQ_LENGTH) :
        /\ log[i].ev = "props"
        /\ j <= Len(log[i].extras)
        /\ log[i].extras[j].inserted}

FiveInside(log) ==
    \A i \in 1..Len(log) :
        log[i].ev = "empty" =>
            /\ log[i].choice \in 0..6
            /\ ~log[i].rootIsSchema =>
                   log[i].choice \in 0..4 /\ ~IsContainer(log[i].val)

C19_SevenOnlyAtTop ==
    (out.called /\ out.abort = "none")
        => /\ FiveInside(out.log)
           /\ \A i \in SevenOutcomes(out.log) :
                  TheSchema.form = "Empty" /\ i = Len(out.log)
           /\ \A p \in InsertedValues(out.log) :
                  ~IsContainer(out.log[p[1]].extras[p[2]].val)

C19_SevenAtRootsOfCalls ==
    (out.called /\ out.abort = "none")
        => /\ FiveInside(out.log)
           /\ Cardinality(SevenOutcomes(out.log))
                  = Cardinality(InsertedValues(out.log))
                    + (IF TheSchema.form = "Empty" THEN 1 ELSE 0)
           /\ TheSchema.form = "Empty" => Len(out.log) \in SevenOutcomes(out.log)

\* Empty members and elements drew among five, and the value of an
\* additional property came out as a container that is not empty
C19_Witness ==
    /\ out.called /\ out.abort = "none"
    /\ \E i \in Events("empty") : ~out.log[i].rootIsSchema
    /\ \E p \in InsertedValues(out.log) :
           LET v == out.log[p[1]].extras[p[2]].val
           IN \/ v.t = "arr" /\ Len(v.a) >= 1
              \/ v.t = "obj" /\ DOMAIN v.o # {}
    /\ TheSchema.form # "Empty"

(***************************************************************************)
(* The recursion of fuzz_with_root, one call at a time.  The stack holds   *)
(* one frame per generator call that still has children to produce; a      *)
(* frame is the list of what is left for it to do.  The draws are free     *)
(* choices here (a null coin, a length, an optional coin, a mapping key),  *)
(* so that what a run does for ever is a matter of the random source.      *)
(***************************************************************************)

\* the frames the stack has room for; a call beyond them ends the process
MaxStack == 5

\* the frames below which a draw may still choose to descend
MaxDescent == 3

\* the Ref calls a run counts
MaxRefs == 2

\* schemas whose definitions refer to themselves
CycleSchemas == <<
    \* 1: a cycle of two refs, one of them nullable
    RootOf(RefS(<<97>>, FALSE),
           (<<97>> :> RefS(<<98>>, TRUE)) @@ (<<98>> :> RefS(<<97>>, FALSE))),
    \* 2: a linked list: the cycle passes through an optional member
    RootOf(RefS(<<108>>, FALSE),
           (<<108>> :> PropertiesS((<<118>> :> TypeS("uint8", FALSE)),
                                   (<<110>> :> RefS(<<108>>, FALSE)), FALSE, FALSE))),
    \* 3: a tree: the cycle passes through an elements node
    RootOf(RefS(<<116>>, FALSE),
           (<<116>> :> ElementsS(RefS(<<116>>, FALSE), FALSE))),
    \* 4: the cycle passes through a values node, a discriminator and a
    \* required member
    RootOf(ValuesS(RefS(<<119>>, FALSE), FALSE),
           (<<118>> :> ValuesS(RefS(<<119>>, FALSE), FALSE))
           @@ (<<119>> :> DiscriminatorS(<<33>>,
                              (<<120>> :> PropertiesS((<<99>> :> RefS(<<118>>, FALSE)),
                                                      EmptyMap, FALSE, FALSE))
                              @@ (<<121>> :> PropertiesS(EmptyMap, EmptyMap, FALSE, FALSE)),
                              FALSE))),
    \* 5: a ref to itself
    RootOf(RefS(<<97>>, FALSE), (<<97>> :> RefS(<<97>>, FALSE))),
    \* 6: a cycle of two refs, neither nullable
    RootOf(RefS(<<97>>, FALSE),
           (<<97>> :> RefS(<<98>>, FALSE)) @@ (<<98>> :> RefS(<<97>>, FALSE))),
    \* 7: a cycle of refs through a required member
    RootOf(PropertiesS((<<97>> :> TypeS("boolean", TRUE))
                       @@ (<<98>> :> RefS(<<112>>, FALSE)),
                       EmptyMap, FALSE, FALSE),
           (<<112>> :> PropertiesS((<<120>> :> RefS(<<112>>, FALSE)),
                                   EmptyMap, TRUE, FALSE)))
>>

TheCycleSchema == CycleSchemas[sid]

\* what a frame has left to do: generate a value of a schema, or toss the
\* coin of an optional member and then perhaps generate it
Gen(schema) == [k |-> "gen", schema |-> schema]
Opt(schema) == [k |-> "opt", schema |-> schema]

IsNullable(n) == "nullable" \in DOMAIN n /\ n.nullable

\* a variant of NullableDraw under which the null coin never comes up true
NullableDraw_never(n) == FALSE

\* `if *nullable && rng.gen()`: the node has a null coin to toss
NullableDraw(n) == IsNullable(n)

Top == out.stack[Len(out.stack)]
Item == Head(Top)
Deep == Len(out.stack) >= MaxDescent

\* the current item is done: its frame goes on with the next one
PopItem == out' = [out EXCEPT !.stack[Len(out.stack)] = Tail(@)]

\* the current item becomes another one, in the same frame
ReplaceItem(item) ==
    out' = [out EXCEPT !.stack[Len(out.stack)] = <<item>> \o Tail(@)]

\* the current call has children: they are a new frame, if there is room
PushKids(kids) ==
    IF Len(out.stack) >= MaxStack
    THEN out' = [out EXCEPT !.pc = "overflow"]
    ELSE out' = [out EXCEPT !.stack = Append([@ EXCEPT ![Len(out.stack)] = Tail(@)],
                                             kids)]

Running == out.pc = "running" /\ Top # <<>>

\* the call of the current item gets past its null coin, if it has one
Entering(form) ==
    /\ Running
    /\ Item.k = "gen"
    /\ Item.schema.form \in form
    /\ IsNullable(Item.schema) => ~Deep

InitRec ==
    /\ sid \in 1..Len(CycleSchemas)
    /\ rng = SeedFrom(<<0>>)
    /\ out = [pc |-> "running", stack |-> << <<Gen(CycleSchemas[sid])>> >>, refs |-> 0]
    /\ order2 = 0
    /\ rng2 = SeedFrom(<<0>>)
    /\ out2 = NotCalled

\* the null coin comes up true: the call returns null
NullCoinTrue ==
    /\ Running
    /\ Item.k = "gen"
    /\ NullableDraw(Item.schema)
    /\ PopItem
    /\ UNCHANGED <<sid, rng, order2, rng2, out2>>

\* Empty, Type, Enum: the call returns a value without a nested call on a
\* schema of the user
EnterLeaf ==
    /\ Entering({"Empty", "Type", "Enum"})
    /\ PopItem
    /\ UNCHANGED <<sid, rng, order2, rng2, out2>>

\* Ref: the call is the call on the definition
EnterRef ==
    /\ Entering({"Ref"})
    /\ out' = [out EXCEPT
                   !.stack[Len(out.stack)] =
                       <<Gen(TheCycleSchema.definitions[Item.schema.ref])>> \o Tail(@),
                   !.refs = IF @ < MaxRefs THEN @ + 1 ELSE @]
    /\ UNCHANGED <<sid, rng, order2, rng2, out2>>

\* Elements, Values: a length, and as many calls on the sub-schema
EnterSeq(len) ==
    /\ Entering({"Elements", "Values"})
    /\ len > 0 => ~Deep
    /\ LET sub == IF Item.schema.form = "Elements"
                  THEN Item.schema.elements ELSE Item.schema.values
       IN IF len = 0 THEN PopItem ELSE PushKids([i \in 1..len |-> Gen(sub)])
    /\ UNCHANGED <<sid, rng, order2, rng2, out2>>

\* Properties: the required members, then the optional ones; the
\* additional ones are values of a schema of the generator's own
EnterProperties ==
    /\ Entering({"Properties"})
    /\ LET req == BTreeIter(DOMAIN Item.schema.properties)
           opt == BTreeIter(DOMAIN Item.schema.optional_properties)
           kids == [i \in 1..Len(req) |-> Gen(Item.schema.properties[req[i]])]
                   \o [i \in 1..Len(opt) |->
                           Opt(Item.schema.optional_properties[opt[i]])]
       IN IF kids = <<>> THEN PopItem ELSE PushKids(kids)
    /\ UNCHANGED <<sid, rng, order2, rng2, out2>>

\* Discriminator: one mapping key, and the call on its schema
EnterDiscriminator ==
    /\ Entering({"Discriminator"})
    /\ \E tag \in DOMAIN Item.schema.mapping :
           PushKids(<<Gen(Item.schema.mapping[tag])>>)
    /\ UNCHANGED <<sid, rng, order2, rng2, out2>>

\* the coin of an optional member: left out, or generated
OptionalCoin(coin) ==
    /\ Running
    /\ Item.k = "opt"
    /\ IF OptionalSkipped(IF coin THEN 1 ELSE 0)
       THEN PopItem
       ELSE ~Deep /\ ReplaceItem(Gen(Item.schema))
    /\ UNCHANGED <<sid, rng, order2, rng2, out2>>

\* a call has produced all its children: it returns to its caller
Return ==
    /\ out.pc = "running"
    /\ Top = <<>>
    /\ Len(out.stack) > 1
    /\ out' = [out EXCEPT !.stack = SubSeq(@, 1, Len(@) - 1)]
    /\ UNCHANGED <<sid, rng, order2, rng2, out2>>

\* fuzz returns to the program
Finish ==
    /\ out.pc = "running"
    /\ Top = <<>>
    /\ Len(out.stack) = 1
    /\ out' = [out EXCEPT !.pc = "returned"]
    /\ UNCHANGED <<sid, rng, order2, rng2, out2>>

NextRec ==
    \/ NullCoinTrue
    \/ EnterLeaf
    \/ EnterRef
    \/ \E len \in 0..MAX_SEQ_LENGTH : EnterSeq(len)
    \/ EnterProperties
    \/ EnterDiscriminator
    \/ \E coin \in BOOLEAN : OptionalCoin(coin)
    \/ Return
    \/ Finish

\* a draw on which the recursion stops: null, a length of zero, an
\* optional member left out
StopDraw ==
    \/ NullCoinTrue
    \/ EnterSeq(0)
    \/ \E coin \in BOOLEAN : OptionalSkipped(IF coin THEN 1 ELSE 0) /\ OptionalCoin(coin)

SpecRec == InitRec /\ [][NextRec]_vars

\* the program keeps running, and the random source does not avoid the
\* stopping draws for ever
FairRec == SpecRec /\ WF_vars(NextRec) /\ SF_vars(StopDraw)

\* The nodes whose call can return, given the nodes F whose call can: a
\* leaf, a nullable node, a sequence (of length zero), a ref to such a
\* node, an object whose required members all are, a discriminator one
\* (any = TRUE) or each (any = FALSE) of whose mappings is.
CanReturn(root, n, F, any) ==
    \/ n.form \in {"Empty", "Type", "Enum", "Elements", "Values"}
    \/ IsNullable(n)
    \/ n.form = "Ref" /\ root.definitions[n.ref] \in F
    \/ n.form = "Properties" /\ \A k \in DOMAIN n.properties : n.properties[k] \in F
    \/ /\ n.form = "Discriminator"
       /\ IF any THEN \E k \in DOMAIN n.mapping : n.mapping[k] \in F
                 ELSE \A k \in DOMAIN n.mapping : n.mapping[k] \in F

RECURSIVE Returning(_, _, _)
Returning(root, F, any) ==
    LET G == {n \in NodesOf(root) : CanReturn(root, n, F, any)}
    IN IF G = F THEN F ELSE Returning(root, G, any)

\* every cycle of refs passes through a nullable node, an elements or
\* values node or an optional member: no node is forced back to itself
EveryCycleCanStop(root) == NodesOf(root) = Returning(root, {}, FALSE)

\* the call on the root is forced into a cycle without such a point
ForcedIntoCycle(root) == root \notin Returning(root, {}, TRUE)

====
